---- MODULE Spec2Model ----
(***************************************************************************)
(* Board-game club catalog (Django application main_game): the model       *)
(* layer (entity tables, join tables, validators, manager/save hooks) and   *)
(* the membership workflow (join / profile-form join / leave views).        *)
(*                                                                          *)
(* The database is the only shared state.  Every ORM statement is one       *)
(* atomic step; a web request is a sequence of such steps, so two requests  *)
(* may interleave between any two of their statements.                      *)
(***************************************************************************)
EXTENDS Integers, Sequences, FiniteSets, TLC

(***************************************************************************)
(* Bounds of the model.                                                     *)
(***************************************************************************)
\* primary keys ever allocated per table (uuid4 values are never reused)
MaxIds == 2
\* rows ever inserted into ClubClient by the web requests
MaxRows == 2
\* last value of the clock
MaxTime == 1
\* web requests ever issued when they are served one at a time
MaxRequests == 2
\* web requests ever issued when they are served concurrently
MaxRaceRequests == 3
\* entity rows ever created in the link specification
MaxEntities == 3
\* join rows ever created in the link specification
MaxLinks == 2

\* concurrent request handlers (worker processes of the web server)
Procs == {"p1", "p2"}

(***************************************************************************)
(* Schema: src/main_game/models.py                                          *)
(***************************************************************************)
\* the six entity tables, plus the auth user table Client.user points to
EntityTypes == {"Club", "BoardGame", "Genre", "Address", "GameSet", "Client"}
Tables == EntityTypes \cup {"User"}
\* the five join tables
AssocTypes == {"ClubToGame", "SetToGame", "GameGenre", "ClubAddress", "ClubClient"}

\* first foreign key of each join table, in source order
LeftType(a) ==
    CASE a = "ClubToGame" -> "Club"
      [] a = "SetToGame" -> "GameSet"
      [] a = "GameGenre" -> "BoardGame"
      [] a = "ClubAddress" -> "Club"
      [] a = "ClubClient" -> "Club"

\* second foreign key of each join table
RightType(a) ==
    CASE a = "ClubToGame" -> "BoardGame"
      [] a = "SetToGame" -> "BoardGame"
      [] a = "GameGenre" -> "Genre"
      [] a = "ClubAddress" -> "Address"
      [] a = "ClubClient" -> "Client"

\* Meta.unique_together: declared by four of the five join tables; the Meta
\* of ClubClient (models.py 574-579) declares none
UniqueTogether(a) == a \in {"ClubToGame", "SetToGame", "GameGenre", "ClubAddress"}

\* the columns of each entity table that the model tracks: the timestamps,
\* the validated columns, Client.user and the text columns that declare a
\* default (Genre.name, Address.city, GameSet.description)
Fields(t) ==
    CASE t = "Club" -> {"created", "modified", "phone_number"}
      [] t = "BoardGame" -> {"created", "modified", "level"}
      [] t = "Client" -> {"created", "modified", "user"}
      [] t = "Genre" -> {"created", "modified", "name"}
      [] t = "Address" -> {"created", "modified", "city"}
      [] t = "GameSet" -> {"created", "modified", "description"}
      [] t = "User" -> {"is_superuser"}
      [] OTHER -> {"created", "modified"}

VARIABLES
    now,        \* the clock read by get_datetime()
    entity,     \* entity[t]: primary key -> row, for each entity table t
    nextId,     \* nextId[t]: primary keys allocated so far in table t
    assoc,      \* assoc[a]: the set of rows of join table a
    nextRow,    \* nextRow[a]: primary keys allocated so far in join table a
    last,       \* the last model-layer call: its arguments, the exception it raised
    proc,       \* proc[p]: the request handler p is running and its locals
    finished    \* the request answered last, with its response, and how many were

vars == <<now, entity, nextId, assoc, nextRow, last, proc, finished>>

(***************************************************************************)
(* Validators                                                               *)
(***************************************************************************)
Digits == {"0", "1", "2", "3", "4", "5", "6", "7", "8", "9"}

\* the two digit groups of the phone pattern, \+7[0-9]{3}[0-9]{7}
PhoneGroupA == 3
PhoneGroupB == 7

\* get_datetime(): the current time
get_datetime == now

\* check_created accepts dt (TRUE) unless it is later than the current time
check_created(dt) == ~(dt > get_datetime)

\* check_modified rejecting the current time too
check_modifiedStrict(dt) == ~(dt >= get_datetime)

\* check_modified accepts dt (TRUE) unless it is later than the current time
check_modified(dt) == ~(dt > get_datetime)

\* check_level with the upper bound excluded
check_levelBelow(number) == ~(number < 0 \/ number >= 100)

\* check_level accepts number unless it is below 0 or above 100
check_level(number) == ~(number < 0 \/ number > 100)

\* the pattern \+7[0-9]{3}[0-9]{7} matched against the first n characters of s
PhoneRuleBody(s, n) ==
    /\ n = 2 + PhoneGroupA + PhoneGroupB
    /\ Len(s) >= n
    /\ s[1] = "+"
    /\ s[2] = "7"
    /\ \A i \in 3..n : s[i] \in Digits

\* phone_number_validator: re.search of ^\+7[0-9]{3}[0-9]{7}$ without re.MULTILINE;
\* ^ matches at the start only, $ at the end and also just before a final newline
phone_number_validator(number) ==
    \/ PhoneRuleBody(number, Len(number))
    \/ /\ Len(number) > 0
       /\ number[Len(number)] = "\n"
       /\ PhoneRuleBody(number, Len(number) - 1)

\* the validator a model field declares (validators=[...]); run by full_clean,
\* by forms and by REST serializers, never by Model.save or Manager.create
FieldValidator(f, v) ==
    CASE f = "created" -> check_created(v)
      [] f = "modified" -> check_modified(v)
      [] f = "level" -> check_level(v)
      [] f = "phone_number" -> phone_number_validator(v)
      [] OTHER -> TRUE

\* the validator functions by name, and the key of the params dictionary of
\* the ValidationError each raises (check_level passes no params)
Validators == {"check_created", "check_modified", "check_level", "phone_number_validator"}
Accepts(fn, v) ==
    CASE fn = "check_created" -> check_created(v)
      [] fn = "check_modified" -> check_modified(v)
      [] fn = "check_level" -> check_level(v)
      [] fn = "phone_number_validator" -> phone_number_validator(v)
ErrorParams(fn) ==
    CASE fn = "check_created" -> {"created"}
      [] fn = "check_modified" -> {"modified"}
      [] fn = "check_level" -> {}
      [] fn = "phone_number_validator" -> {"phone_number"}

\* a validator called on the value v: it returns, or raises ValidationError
Validate(fn, v) ==
    /\ last' = [op |-> fn, table |-> "none", id |-> 0, args |-> v,
                raised |-> IF Accepts(fn, v) THEN "none" ELSE "ValidationError",
                params |-> IF Accepts(fn, v) THEN {} ELSE ErrorParams(fn)]
    /\ UNCHANGED <<now, entity, nextId, assoc, nextRow, proc, finished>>

\* HookValidators with check_modified left out of the list handed to
\* create_manager and create_save
HookValidatorsCreatedOnly(t) == IF t = "Client" THEN <<"created">> ELSE <<>>

\* the (field, validator) pairs handed to create_manager / create_save: only
\* Client replaces objects and save
HookValidators(t) == IF t = "Client" THEN <<"created", "modified">> ELSE <<>>

(***************************************************************************)
(* Model layer: rows, constraints, Manager.create, Model.save, delete, link *)
(***************************************************************************)
Exists(t, id) == id \in DOMAIN entity[t]

\* the table tbl with row stored under primary key id
Put(tbl, id, row) == [i \in DOMAIN tbl \cup {id} |-> IF i = id THEN row ELSE tbl[i]]

\* the table tbl without the primary keys in ids
Without(tbl, ids) == [i \in DOMAIN tbl \ ids |-> tbl[i]]

\* the rows of join table a that pair l with r
PairRows(a, l, r) == {x \in assoc[a] : x.left = l /\ x.right = r}

\* FieldDefault with the default= of the three text columns left out
FieldDefaultBlank(f) ==
    CASE f \in {"created", "modified"} -> get_datetime
      [] f = "phone_number" -> <<>>
      [] f \in {"name", "city", "description"} -> ""
      [] f = "is_superuser" -> FALSE
      [] OTHER -> 0

\* a field's default= : get_datetime for both timestamps, '' for a text
\* field, False for is_superuser; level and user have none (NULL, stood for by 0)
FieldDefault(f) ==
    CASE f \in {"created", "modified"} -> get_datetime
      [] f = "phone_number" -> <<>>
      [] f = "name" -> "no genre"
      [] f = "city" -> "Sirius"
      [] f = "description" -> ""
      [] f = "is_superuser" -> FALSE
      [] OTHER -> 0

\* columns that are NOT NULL and have no default
Required(t) ==
    CASE t = "BoardGame" -> {"level"}
      [] t = "Client" -> {"user"}
      [] OTHER -> {}

\* keyword arguments: kw[f] is {} when f is not passed and {v} when f=v is
Given(kw, f) == CHOOSE v \in kw[f] : TRUE

\* Model(**kwargs): the instance built from the keyword arguments
NewObject(t, kw) ==
    [f \in Fields(t) |-> IF kw[f] = {} THEN FieldDefault(f) ELSE Given(kw, f)]

\* the instance read from the table with the passed attributes assigned
Assigned(t, id, kw) ==
    [f \in Fields(t) |-> IF kw[f] = {} THEN entity[t][id][f] ELSE Given(kw, f)]

\* the first field of the validator list whose value lies in bad: a loop
\* over the list raises at the first validator that rejects
FirstRejected(fields, bad) ==
    LET hits == {i \in 1..Len(fields) : fields[i] \in bad}
    IN IF hits = {} THEN {}
       ELSE {fields[CHOOSE i \in hits : \A j \in hits : i <= j]}

\* Manager.create of create_manager: validates the listed fields that are
\* among the keyword arguments
ManagerRejects(t, kw) ==
    FirstRejected(HookValidators(t),
                  {f \in Fields(t) : kw[f] # {} /\ ~FieldValidator(f, Given(kw, f))})

\* save of create_save: validates every listed field of the instance
SaveRejects(t, obj) ==
    FirstRejected(HookValidators(t), {f \in Fields(t) : ~FieldValidator(f, obj[f])})

\* constraints the database enforces on a row: the CHECK (level >= 0) of a
\* PositiveIntegerField, the foreign key and the uniqueness of Client.user
RowAllowed(t, id, obj) ==
    CASE t = "BoardGame" -> obj.level >= 0
      [] t = "Client" ->
            /\ Exists("User", obj.user)
            /\ \A c \in DOMAIN entity["Client"] \ {id} : entity["Client"][c].user # obj.user
      [] OTHER -> TRUE

\* SaveOutcome with the validators run after the row is written
SaveOutcomeLate(t, id, obj) ==
    IF ~RowAllowed(t, id, obj)
    THEN [raised |-> "IntegrityError", params |-> {}, entity |-> entity]
    ELSE [raised |-> IF SaveRejects(t, obj) # {} THEN "ValidationError" ELSE "none",
          params |-> SaveRejects(t, obj),
          entity |-> [entity EXCEPT ![t] = Put(@, id, obj)]]

\* instance.save(): the hook validators (Client only), then the UPDATE, or
\* the INSERT when no row has the primary key.  No field validator runs here.
SaveOutcome(t, id, obj) ==
    IF SaveRejects(t, obj) # {}
    THEN [raised |-> "ValidationError", params |-> SaveRejects(t, obj), entity |-> entity]
    ELSE IF ~RowAllowed(t, id, obj)
         THEN [raised |-> "IntegrityError", params |-> {}, entity |-> entity]
         ELSE [raised |-> "none", params |-> {},
               entity |-> [entity EXCEPT ![t] = Put(@, id, obj)]]

\* T.objects.create(**kwargs): the manager's validators, then the instance is
\* built and saved
CreateOutcome(t, id, kw) ==
    IF ManagerRejects(t, kw) # {}
    THEN [raised |-> "ValidationError", params |-> ManagerRejects(t, kw), entity |-> entity]
    ELSE IF \E f \in Required(t) : kw[f] = {}
         THEN [raised |-> "IntegrityError", params |-> {}, entity |-> entity]
         ELSE SaveOutcome(t, id, NewObject(t, kw))

\* T.objects.create(**kwargs) with a fresh uuid4 primary key
Create(t, kw) ==
    /\ nextId[t] < MaxIds
    /\ LET id == nextId[t] + 1
           out == CreateOutcome(t, id, kw)
       IN /\ entity' = out.entity
          /\ nextId' = IF out.raised = "none" THEN [nextId EXCEPT ![t] = id] ELSE nextId
          /\ last' = [op |-> "create", table |-> t, id |-> IF out.raised = "none" THEN id ELSE 0,
                      args |-> kw, raised |-> out.raised, params |-> out.params]
    /\ UNCHANGED <<now, assoc, nextRow, proc, finished>>

\* obj = T.objects.get(id=id); obj.f = v for the passed fields; obj.save()
Save(t, id, kw) ==
    /\ Exists(t, id)
    /\ LET out == SaveOutcome(t, id, Assigned(t, id, kw))
       IN /\ entity' = out.entity
          /\ last' = [op |-> "save", table |-> t, id |-> id, args |-> kw,
                      raised |-> out.raised, params |-> out.params]
    /\ UNCHANGED <<now, nextId, assoc, nextRow, proc, finished>>

\* rows removed with row id of table t: the row itself and, through
\* Client.user on_delete=CASCADE, the Client of a deleted User
Doomed(t, id) ==
    {<<t, id>>} \cup
    (IF t = "User"
     THEN {<<"Client", c>> : c \in {c \in DOMAIN entity["Client"] : entity["Client"][c].user = id}}
     ELSE {})

\* Cascade with the second foreign key of every join table left out of the
\* collection, as on_delete=DO_NOTHING would
CascadeLeftOnly(a, gone) == {x \in assoc[a] : <<LeftType(a), x.left>> \notin gone}

\* the join rows that survive the deletion of the rows in gone: both
\* foreign keys of every join table are on_delete=CASCADE
Cascade(a, gone) ==
    {x \in assoc[a] : <<LeftType(a), x.left>> \notin gone /\ <<RightType(a), x.right>> \notin gone}

\* obj.delete() of the row id of table t
Delete(t, id) ==
    /\ Exists(t, id)
    /\ LET gone == Doomed(t, id)
       IN /\ entity' = [u \in Tables |-> Without(entity[u], {i \in DOMAIN entity[u] : <<u, i>> \in gone})]
          /\ assoc' = [a \in AssocTypes |-> Cascade(a, gone)]
    /\ last' = [op |-> "delete", table |-> t, id |-> 0, args |-> <<>>, raised |-> "none", params |-> {}]
    /\ UNCHANGED <<now, nextId, nextRow, proc, finished>>

\* InsertOutcome with the foreign keys of the join table not enforced
\* (db_constraint=False): a row naming an entity that is not stored is inserted
InsertOutcomeNoForeignKey(a, l, r) ==
    IF UniqueTogether(a) /\ PairRows(a, l, r) # {}
    THEN [raised |-> "IntegrityError", params |-> {"unique_together"},
          assoc |-> assoc, nextRow |-> nextRow]
    ELSE [raised |-> "none", params |-> {},
          assoc |-> [assoc EXCEPT ![a] =
                        @ \cup {[id |-> nextRow[a] + 1, left |-> l, right |-> r,
                                 created |-> get_datetime]}],
          nextRow |-> [nextRow EXCEPT ![a] = @ + 1]]

\* the INSERT of a join row (l, r) into a: rejected by a dangling foreign key
\* and, where the table declares unique_together, by an existing (l, r) row
InsertOutcome(a, l, r) ==
    IF ~(Exists(LeftType(a), l) /\ Exists(RightType(a), r))
    THEN [raised |-> "IntegrityError", params |-> {"foreign_key"}, assoc |-> assoc, nextRow |-> nextRow]
    ELSE IF UniqueTogether(a) /\ PairRows(a, l, r) # {}
         THEN [raised |-> "IntegrityError", params |-> {"unique_together"},
               assoc |-> assoc, nextRow |-> nextRow]
         ELSE [raised |-> "none", params |-> {},
               assoc |-> [assoc EXCEPT ![a] =
                             @ \cup {[id |-> nextRow[a] + 1, left |-> l, right |-> r,
                                      created |-> get_datetime]}],
               nextRow |-> [nextRow EXCEPT ![a] = @ + 1]]

\* A.objects.create(left=l, right=r) on a join table
Link(a, l, r) ==
    /\ LET out == InsertOutcome(a, l, r)
       IN /\ assoc' = out.assoc
          /\ nextRow' = out.nextRow
          /\ last' = [op |-> "link", table |-> a, id |-> 0, args |-> <<>>, raised |-> out.raised, params |-> out.params]
    /\ UNCHANGED <<now, entity, nextId, proc, finished>>

\* left.rights.add(right) of a ManyToManyField with a through model: the
\* pairs already present are read, only the missing one is inserted
Add(a, l, r) ==
    /\ Exists(LeftType(a), l)
    /\ Exists(RightType(a), r)
    /\ IF PairRows(a, l, r) # {}
       THEN /\ UNCHANGED <<assoc, nextRow>>
            /\ last' = [op |-> "add", table |-> a, id |-> 0, args |-> <<>>, raised |-> "none", params |-> {}]
       ELSE LET out == InsertOutcome(a, l, r)
            IN /\ assoc' = out.assoc
               /\ nextRow' = out.nextRow
               /\ last' = [op |-> "add", table |-> a, id |-> 0, args |-> <<>>, raised |-> out.raised, params |-> out.params]
    /\ UNCHANGED <<now, entity, nextId, proc, finished>>

\* row.delete() of the row with primary key rid of join table a, as the
\* club_client.delete() of remove_from_joined
Unlink(a, rid) ==
    /\ \E x \in assoc[a] : x.id = rid
    /\ assoc' = [assoc EXCEPT ![a] = {x \in @ : x.id # rid}]
    /\ last' = [op |-> "unlink", table |-> a, id |-> 0, args |-> <<>>, raised |-> "none", params |-> {}]
    /\ UNCHANGED <<now, entity, nextId, nextRow, proc, finished>>

\* the clock advances
Tick ==
    /\ now < MaxTime
    /\ now' = now + 1
    /\ UNCHANGED <<entity, nextId, assoc, nextRow, last, proc, finished>>

(***************************************************************************)
(* Web layer: src/main_game/views.py                                        *)
(***************************************************************************)
\* the club identifier a request carries: absent, not a UUID, or one of the
\* UUIDs ids (of a stored club or not)
NoId == [kind |-> "missing", val |-> 0]
IdParams(ids) ==
    {NoId, [kind |-> "malformed", val |-> 0]} \cup {[kind |-> "uuid", val |-> i] : i \in ids}

Methods == {"GET", "POST"}

NoInstance == [created |-> 0, modified |-> 0, user |-> 0]

\* a handler that has not been given a request.  table is the model of the
\* page or endpoint requested, data the request body.  before, inserted and
\* deleted only observe the request: the ClubClient rows of its (client, club)
\* pair when it was accepted, and the rows it has inserted and deleted since
IdleProc ==
    [op |-> "none", table |-> "none", method |-> "GET", user |-> 0, id |-> NoId,
     data |-> <<>>, pc |-> "idle",
     client |-> 0, instance |-> NoInstance, club |-> 0, row |-> 0, before |-> 0,
     inserted |-> 0, deleted |-> 0, response |-> "none", outcome |-> "none"]

Free(p) == proc[p].pc = "idle"

\* requests accepted so far: those answered and those in flight
Issued == finished.n + Cardinality({q \in Procs : ~Free(q)})

\* the Client rows whose user is u: Client.objects.get(user=request.user)
ClientsOf(u) == {c \in DOMAIN entity["Client"] : entity["Client"][c].user = u}

\* the ClubClient rows of client c and club k (left is club, right is client)
Membership(c, k) == PairRows("ClubClient", k, c)

\* a request arrives
Accept(op, u, idp, m) == [IdleProc EXCEPT !.op = op, !.method = m, !.user = u, !.id = idp]

\* the handler returns its response
Respond(r, response, outcome) ==
    [r EXCEPT !.pc = "done", !.response = response, !.outcome = outcome,
              !.instance = NoInstance, !.row = 0]

\* handler p moves on as r; a handler that has responded is free again and
\* its request becomes the one answered last
Continue(p, r) ==
    /\ proc' = [proc EXCEPT ![p] = IF r.pc = "done" THEN IdleProc ELSE r]
    /\ finished' = IF r.pc = "done" THEN [n |-> finished.n + 1, req |-> r] ELSE finished

\* Authenticate without @login_required: the anonymous user reaches
\* Client.objects.get(user=request.user), which raises
AuthenticateNoLogin(r, next) ==
    IF r.user = 0 \/ ~Exists("User", r.user) \/ ClientsOf(r.user) = {}
    THEN Respond(r, "error:500", "DoesNotExist")
    ELSE LET c == CHOOSE c \in ClientsOf(r.user) : TRUE
         IN [r EXCEPT !.pc = next, !.client = c, !.instance = entity["Client"][c],
                      !.before = IF r.id.kind = "uuid"
                                 THEN Cardinality(Membership(c, r.id.val))
                                 ELSE 0]

\* @login_required and the first statement of join, profile and
\* remove_from_joined: client = Client.objects.get(user=request.user).
\* An anonymous request is redirected to the login page; a user without a
\* Client row makes get raise DoesNotExist, which no view catches.
Authenticate(r, next) ==
    IF r.user = 0 \/ ~Exists("User", r.user)
    THEN Respond(r, "redirect:login", "none")
    ELSE IF ClientsOf(r.user) = {}
         THEN Respond(r, "error:500", "DoesNotExist")
         ELSE LET c == CHOOSE c \in ClientsOf(r.user) : TRUE
              IN [r EXCEPT !.pc = next, !.client = c, !.instance = entity["Client"][c],
                           !.before = IF r.id.kind = "uuid"
                                      THEN Cardinality(Membership(c, r.id.val))
                                      ELSE 0]

\* join, lines 259-262: the client is read; a request without id is
\* redirected to the club list
JoinBegin(p, u, idp, m) ==
    /\ Free(p)
    /\ LET r == Authenticate(Accept("join", u, idp, m), "join_lookup")
       IN Continue(p, IF r.pc = "join_lookup" /\ idp.kind = "missing"
                      THEN Respond(r, "redirect:clubs", "ClubNotFound")
                      ELSE r)
    /\ UNCHANGED <<now, entity, nextId, assoc, nextRow, last>>

\* JoinLookup catching DoesNotExist only: the ValidationError of an id that
\* is not a UUID is left unhandled
JoinLookupNoCatch(p) ==
    /\ proc[p].pc = "join_lookup"
    /\ Continue(p, IF proc[p].id.kind # "uuid"
                   THEN Respond(proc[p], "error:500", "ValidationError")
                   ELSE IF ~Exists("Club", proc[p].id.val)
                        THEN Respond(proc[p], "redirect:clubs", "ClubNotFound")
                        ELSE [proc[p] EXCEPT !.pc = "join_member", !.club = proc[p].id.val])
    /\ UNCHANGED <<now, entity, nextId, assoc, nextRow, last>>

\* join, lines 263-268: Club.objects.get(id=id_); ValidationError (not a
\* UUID) and DoesNotExist both redirect to the club list
JoinLookup(p) ==
    /\ proc[p].pc = "join_lookup"
    /\ Continue(p, IF proc[p].id.kind # "uuid" \/ ~Exists("Club", proc[p].id.val)
                   THEN Respond(proc[p], "redirect:clubs", "ClubNotFound")
                   ELSE [proc[p] EXCEPT !.pc = "join_member", !.club = proc[p].id.val])
    /\ UNCHANGED <<now, entity, nextId, assoc, nextRow, last>>

\* JoinMember without the membership test of line 269
JoinMemberBlind(p) ==
    /\ proc[p].pc = "join_member"
    /\ Continue(p, IF proc[p].method = "POST"
                   THEN [proc[p] EXCEPT !.pc = "join_add"]
                   ELSE Respond(proc[p], "render:join", "Confirm"))
    /\ UNCHANGED <<now, entity, nextId, assoc, nextRow, last>>

\* JoinMember without the request.method == 'POST' test of line 272: a GET
\* of a client that is not a member goes on to add
JoinMemberAnyMethod(p) ==
    /\ proc[p].pc = "join_member"
    /\ Continue(p, IF Membership(proc[p].client, proc[p].club) # {}
                   THEN Respond(proc[p], "redirect:profile", "AlreadyMember")
                   ELSE [proc[p] EXCEPT !.pc = "join_add"])
    /\ UNCHANGED <<now, entity, nextId, assoc, nextRow, last>>

\* join, lines 269-283: club in client.clubs.all() redirects to the profile;
\* otherwise a GET renders the confirmation page and a POST goes on to add
JoinMember(p) ==
    /\ proc[p].pc = "join_member"
    /\ Continue(p, IF Membership(proc[p].client, proc[p].club) # {}
                   THEN Respond(proc[p], "redirect:profile", "AlreadyMember")
                   ELSE IF proc[p].method = "POST"
                        THEN [proc[p] EXCEPT !.pc = "join_add"]
                        ELSE Respond(proc[p], "render:join", "Confirm"))
    /\ UNCHANGED <<now, entity, nextId, assoc, nextRow, last>>

\* JoinAdd with the test of the pairs already present inverted
JoinAddInverted(p) ==
    /\ proc[p].pc = "join_add"
    /\ Continue(p, IF Membership(proc[p].client, proc[p].club) = {}
                   THEN [proc[p] EXCEPT !.pc = "join_save"]
                   ELSE [proc[p] EXCEPT !.pc = "join_insert"])
    /\ UNCHANGED <<now, entity, nextId, assoc, nextRow, last>>

\* join, line 273, client.clubs.add(club): the SELECT of the pairs already
\* present; nothing is inserted for a pair that is
JoinAdd(p) ==
    /\ proc[p].pc = "join_add"
    /\ Continue(p, IF Membership(proc[p].client, proc[p].club) # {}
                   THEN [proc[p] EXCEPT !.pc = "join_save"]
                   ELSE [proc[p] EXCEPT !.pc = "join_insert"])
    /\ UNCHANGED <<now, entity, nextId, assoc, nextRow, last>>

\* JoinInsert as client.clubs.set([club]) would do it: the rows of the
\* client for every other club are deleted with the INSERT of the pair
JoinInsertSet(p) ==
    /\ proc[p].pc = "join_insert"
    /\ nextRow["ClubClient"] < MaxRows
    /\ LET out == InsertOutcome("ClubClient", proc[p].club, proc[p].client)
       IN /\ assoc' = [out.assoc EXCEPT !["ClubClient"] =
                          {x \in @ : x.right # proc[p].client \/ x.left = proc[p].club}]
          /\ nextRow' = out.nextRow
          /\ Continue(p, IF out.raised = "none"
                         THEN [proc[p] EXCEPT !.pc = "join_save", !.inserted = @ + 1]
                         ELSE Respond(proc[p], "error:500", out.raised))
    /\ UNCHANGED <<now, entity, nextId, last>>

\* join, line 273, client.clubs.add(club): the INSERT of the missing pair
JoinInsert(p) ==
    /\ proc[p].pc = "join_insert"
    /\ nextRow["ClubClient"] < MaxRows
    /\ LET out == InsertOutcome("ClubClient", proc[p].club, proc[p].client)
       IN /\ assoc' = out.assoc
          /\ nextRow' = out.nextRow
          /\ Continue(p, IF out.raised = "none"
                         THEN [proc[p] EXCEPT !.pc = "join_save", !.inserted = @ + 1]
                         ELSE Respond(proc[p], "error:500", out.raised))
    /\ UNCHANGED <<now, entity, nextId, last>>

\* join, lines 274-275: client.save(), the save of create_save, then the
\* redirect to the profile
JoinSave(p) ==
    /\ proc[p].pc = "join_save"
    /\ LET out == SaveOutcome("Client", proc[p].client, proc[p].instance)
       IN /\ entity' = out.entity
          /\ Continue(p, IF out.raised = "none"
                         THEN Respond(proc[p], "redirect:profile", "Joined")
                         ELSE Respond(proc[p], "error:500", out.raised))
    /\ UNCHANGED <<now, nextId, assoc, nextRow, last>>

\* profile, lines 216-219 and 232-246: the client is read; a GET renders the
\* page with an empty form
ProfileBegin(p, u, idp, m) ==
    /\ Free(p)
    /\ LET r == Authenticate(Accept("profile", u, idp, m), "profile_valid")
       IN Continue(p, IF r.pc = "profile_valid" /\ m = "GET"
                      THEN Respond(r, "render:profile", "")
                      ELSE r)
    /\ UNCHANGED <<now, entity, nextId, assoc, nextRow, last>>

\* profile, lines 220-223 and 230-231, with forms.Join: the required
\* ModelChoiceField over Club.objects.all() is valid only for the id of a
\* stored club, so a valid form always carries a club
ProfileValid(p) ==
    /\ proc[p].pc = "profile_valid"
    /\ Continue(p, IF proc[p].id.kind # "uuid" \/ ~Exists("Club", proc[p].id.val)
                   THEN Respond(proc[p], "render:profile", "Form validation error!")
                   ELSE [proc[p] EXCEPT !.pc = "profile_exists", !.club = proc[p].id.val])
    /\ UNCHANGED <<now, entity, nextId, assoc, nextRow, last>>

\* ProfileExists without the exists() test of line 224: the row is created
\* whether or not the pair has one
ProfileExistsBlind(p) ==
    /\ proc[p].pc = "profile_exists"
    /\ Continue(p, [proc[p] EXCEPT !.pc = "profile_create"])
    /\ UNCHANGED <<now, entity, nextId, assoc, nextRow, last>>

\* profile, lines 224 and 226-227: ClubClient.objects.filter(...).exists()
ProfileExists(p) ==
    /\ proc[p].pc = "profile_exists"
    /\ Continue(p, IF Membership(proc[p].client, proc[p].club) # {}
                   THEN Respond(proc[p], "render:profile", "You already joined this club!")
                   ELSE [proc[p] EXCEPT !.pc = "profile_create"])
    /\ UNCHANGED <<now, entity, nextId, assoc, nextRow, last>>

\* profile, line 225: ClubClient.objects.create(club=club, client=client)
ProfileCreate(p) ==
    /\ proc[p].pc = "profile_create"
    /\ nextRow["ClubClient"] < MaxRows
    /\ LET out == InsertOutcome("ClubClient", proc[p].club, proc[p].client)
       IN /\ assoc' = out.assoc
          /\ nextRow' = out.nextRow
          /\ Continue(p, IF out.raised = "none"
                         THEN Respond([proc[p] EXCEPT !.inserted = @ + 1], "render:profile", "")
                         ELSE Respond(proc[p], "error:500", out.raised))
    /\ UNCHANGED <<now, entity, nextId, last>>

\* LeaveBegin with the route taking any string (<str:club_id>): an id that is
\* not a UUID enters the view, where ClubClient.objects.get raises
\* ValidationError and the except Exception clause answers
LeaveBeginAnyString(p, u, idp, m) ==
    /\ Free(p)
    /\ LET r == Authenticate([Accept("leave", u, idp, m) EXCEPT !.club = idp.val], "leave_get")
       IN Continue(p, IF r.pc = "leave_get" /\ idp.kind # "uuid"
                      THEN Respond(r, "redirect:profile", "An error occurred")
                      ELSE r)
    /\ UNCHANGED <<now, entity, nextId, assoc, nextRow, last>>

\* urls.py line 33 and remove_from_joined, line 297: the route's uuid
\* converter answers 404 to anything that is not a UUID before the view is
\* entered; then the client is read
LeaveBegin(p, u, idp, m) ==
    /\ Free(p)
    /\ LET r == Accept("leave", u, idp, m)
       IN Continue(p, IF idp.kind # "uuid"
                      THEN Respond(r, "error:404", "none")
                      ELSE Authenticate([r EXCEPT !.club = idp.val], "leave_get"))
    /\ UNCHANGED <<now, entity, nextId, assoc, nextRow, last>>

\* LeaveGet without the except clauses: DoesNotExist and
\* MultipleObjectsReturned are left unhandled
LeaveGetNoCatch(p) ==
    /\ proc[p].pc = "leave_get"
    /\ LET found == Membership(proc[p].client, proc[p].club)
       IN Continue(p, IF found = {}
                      THEN Respond(proc[p], "error:500", "DoesNotExist")
                      ELSE IF Cardinality(found) > 1
                           THEN Respond(proc[p], "error:500", "MultipleObjectsReturned")
                           ELSE [proc[p] EXCEPT !.pc = "leave_delete",
                                                !.row = (CHOOSE x \in found : TRUE).id])
    /\ UNCHANGED <<now, entity, nextId, assoc, nextRow, last>>

\* remove_from_joined, lines 298-299 and 302-307:
\* ClubClient.objects.get(client=client, club_id=club_id) raises DoesNotExist
\* for no row and MultipleObjectsReturned, caught by except Exception, for
\* several; both end the request with a message and the redirect
LeaveGet(p) ==
    /\ proc[p].pc = "leave_get"
    /\ LET found == Membership(proc[p].client, proc[p].club)
       IN Continue(p, IF found = {}
                      THEN Respond(proc[p], "redirect:profile", "You are not a member of this club.")
                      ELSE IF Cardinality(found) > 1
                           THEN Respond(proc[p], "redirect:profile", "An error occurred")
                           ELSE [proc[p] EXCEPT !.pc = "leave_delete",
                                                !.row = (CHOOSE x \in found : TRUE).id])
    /\ UNCHANGED <<now, entity, nextId, assoc, nextRow, last>>

\* remove_from_joined, lines 300-301 and 307: club_client.delete() deletes
\* the row read, by primary key
LeaveDelete(p) ==
    /\ proc[p].pc = "leave_delete"
    /\ LET hit == {x \in assoc["ClubClient"] : x.id = proc[p].row}
       IN /\ assoc' = [assoc EXCEPT !["ClubClient"] = @ \ hit]
          /\ Continue(p, Respond([proc[p] EXCEPT !.deleted = Cardinality(hit)], "redirect:profile",
                                 "You have successfully left the club."))
    /\ UNCHANGED <<now, entity, nextId, nextRow, last>>

\* the models that have a catalog list page and a detail page
PageTables == {"Club", "BoardGame", "GameSet", "Address", "Genre"}

\* @login_required / LoginRequiredMixin alone: the request has a logged-in user
LoggedIn(u) == u # 0 /\ Exists("User", u)

\* create_list_view, lines 41-85: a GET of a catalog list page; the rows of
\* the model are read and rendered
ListPage(p, u, t) ==
    /\ Free(p)
    /\ LET r == [Accept("list", u, NoId, "GET") EXCEPT !.table = t]
       IN Continue(p, IF ~LoggedIn(u)
                      THEN Respond(r, "redirect:login", "none")
                      ELSE Respond(r, "render:list", "none"))
    /\ UNCHANGED <<now, entity, nextId, assoc, nextRow, last>>

\* create_view.view, lines 100-112: a GET of a detail page;
\* model_class.objects.get(id=id_) is called when id is given, with no
\* exception handler: ValidationError (not a UUID) and DoesNotExist escape
DetailPage(p, u, idp, t) ==
    /\ Free(p)
    /\ LET r == [Accept("detail", u, idp, "GET") EXCEPT !.table = t]
       IN Continue(p, IF ~LoggedIn(u)
                      THEN Respond(r, "redirect:login", "none")
                      ELSE IF idp.kind = "missing"
                           THEN Respond(r, "render:detail", "None")
                           ELSE IF idp.kind # "uuid"
                                THEN Respond(r, "error:500", "ValidationError")
                                ELSE IF ~Exists(t, idp.val)
                                     THEN Respond(r, "error:500", "DoesNotExist")
                                     ELSE Respond(r, "render:detail", "Found"))
    /\ UNCHANGED <<now, entity, nextId, assoc, nextRow, last>>

\* Register with the Client.objects.create(user=user) of line 139 left out: a
\* valid form stores the user account alone
RegisterUserOnly(valid) ==
    /\ IF valid
       THEN LET u == nextId["User"] + 1
            IN /\ entity' = [entity EXCEPT !["User"] = Put(@, u, [is_superuser |-> FALSE])]
               /\ nextId' = [nextId EXCEPT !["User"] = u]
       ELSE UNCHANGED <<entity, nextId>>
    /\ last' = [op |-> "register", table |-> "User", id |-> 0, args |-> <<>>,
                raised |-> IF valid THEN "none" ELSE "ValidationError", params |-> {}]
    /\ UNCHANGED <<now, assoc, nextRow, proc, finished>>

\* register, lines 133-151: a valid form saves the user and creates its
\* Client; an invalid form stores nothing
Register(valid) ==
    /\ IF valid
       THEN LET u == nextId["User"] + 1
                withUser == [entity EXCEPT !["User"] = Put(@, u, [is_superuser |-> FALSE])]
                c == nextId["Client"] + 1
                obj == [created |-> get_datetime, modified |-> get_datetime, user |-> u]
            IN /\ entity' = [withUser EXCEPT !["Client"] = Put(@, c, obj)]
               /\ nextId' = [nextId EXCEPT !["User"] = u, !["Client"] = c]
       ELSE UNCHANGED <<entity, nextId>>
    /\ last' = [op |-> "register", table |-> "User", id |-> 0, args |-> <<>>,
                raised |-> IF valid THEN "none" ELSE "ValidationError", params |-> {}]
    /\ UNCHANGED <<now, assoc, nextRow, proc, finished>>

(***************************************************************************)
(* Inputs                                                                   *)
(***************************************************************************)
\* '+79098087060', the number of tests/test_join.py
ValidPhone == <<"+", "7", "9", "0", "9", "8", "0", "8", "7", "0", "6", "0">>

\* phone numbers a caller may pass: the valid one, 'ABC' of
\* tests/test_models.py, and the valid one followed by a line break
PhoneInputs == {ValidPhone, <<"A", "B", "C">>, ValidPhone \o <<"\n">>}

\* levels a caller may pass
LevelInputs == {0 - 1, 0, 100, 101}

\* timestamps a caller may pass: some are in the future at any clock value
TimeInputs == 0..(MaxTime + 1)

\* characters a phone-number string is made of: digits, '+', a letter and a
\* line break
PhoneAlphabet == {"+", "7", "0", "e", "\n"}

\* one character of s replaced, one character inserted before or after s
Replaced(s, i, c) == [j \in 1..Len(s) |-> IF j = i THEN c ELSE s[j]]

\* phone-number strings handed to the validator: the valid number, every
\* prefix of it, it with one character replaced, with one character before
\* it or after it, and the rejected numbers of tests/test_models.py
PhoneStrings ==
    {ValidPhone}
        \cup {SubSeq(ValidPhone, 1, k) : k \in 0..Len(ValidPhone)}
        \cup {Replaced(ValidPhone, i, c) : i \in 1..Len(ValidPhone), c \in PhoneAlphabet}
        \cup {<<c>> \o ValidPhone : c \in PhoneAlphabet}
        \cup {ValidPhone \o <<c>> : c \in PhoneAlphabet}
        \cup {SubSeq(ValidPhone, 2, Len(ValidPhone)),
              <<"+", "7", "9", "0", "9", "e", "e", "8", "0", "8", "7", "0", "6", "0">>}

\* levels handed to the validator: around both boundaries, and the values
\* of tests/test_models.py
LevelSamples == {0 - 3, 0 - 1, 0, 1, 30, 99, 100, 101, 3000}

\* text values a caller may pass: 'ABC' of tests/test_models.py
TextInputs == {"ABC"}

\* an optional keyword argument over the values S
Opt(S) == {{}} \cup {{v} : v \in S}

\* the keyword arguments a caller may pass to create or assign before save
Kwargs(t) ==
    CASE t = "Club" ->
            [created : Opt(TimeInputs), modified : Opt(TimeInputs), phone_number : Opt(PhoneInputs)]
      [] t = "BoardGame" ->
            [created : Opt(TimeInputs), modified : Opt(TimeInputs), level : Opt(LevelInputs)]
      [] t = "Client" ->
            [created : Opt(TimeInputs), modified : Opt(TimeInputs), user : Opt(1..MaxIds)]
      [] t = "Genre" ->
            [created : Opt(TimeInputs), modified : Opt(TimeInputs), name : Opt(TextInputs)]
      [] t = "Address" ->
            [created : Opt(TimeInputs), modified : Opt(TimeInputs), city : Opt(TextInputs)]
      [] t = "GameSet" ->
            [created : Opt(TimeInputs), modified : Opt(TimeInputs), description : Opt(TextInputs)]
      [] t = "User" -> [is_superuser : Opt(BOOLEAN)]

\* the keyword arguments of the tests' fixtures: no timestamp passed, the
\* valid phone number, level 0
PlainKwargs(t) ==
    {kw \in Kwargs(t) :
        /\ \A f \in Fields(t) \cap {"created", "modified", "is_superuser",
                                    "name", "city", "description"} : kw[f] = {}
        /\ \A f \in Fields(t) \cap {"phone_number"} : kw[f] = {ValidPhone}
        /\ \A f \in Fields(t) \cap {"level"} : kw[f] = {0}
        /\ \A f \in Fields(t) \cap {"user"} : kw[f] # {}}

\* the users a request may come from: 0 is the anonymous user
Requesters == {0} \cup DOMAIN entity["User"]

\* entity rows and join rows created so far
TotalEntities ==
    nextId["Club"] + nextId["BoardGame"] + nextId["Genre"] + nextId["Address"]
        + nextId["GameSet"] + nextId["Client"] + nextId["User"]
TotalLinks ==
    nextRow["ClubToGame"] + nextRow["SetToGame"] + nextRow["GameGenre"]
        + nextRow["ClubAddress"] + nextRow["ClubClient"]

(***************************************************************************)
(* REST API: src/main_game/views.py 154-203, serializers.py, urls.py 6-11    *)
(***************************************************************************)
\* the models registered with the router
ApiTables == {"Club", "BoardGame", "GameSet", "Genre", "Address"}

\* MyPermission._safe_methods and _unsafe_methods
SafeMethods == {"GET", "HEAD", "OPTIONS", "PATCH"}
UnsafeMethods == {"POST", "PUT", "DELETE"}
ApiMethods == SafeMethods \cup UnsafeMethods

\* has_permission with every authenticated user allowed the unsafe methods
has_permissionAnyUser(method, u) == method \in ApiMethods /\ LoggedIn(u)

\* MyPermission.has_permission
has_permission(method, u) ==
    \/ method \in SafeMethods /\ LoggedIn(u)
    \/ method \in UnsafeMethods /\ LoggedIn(u) /\ entity["User"][u].is_superuser

\* the writable fields of each serializer, among the tracked columns: the
\* serializers of Genre and Address take '__all__', the others list their
\* fields and leave the timestamps out
SerializerFields(t) ==
    IF t \in {"Genre", "Address"} THEN Fields(t) ELSE Fields(t) \ {"created", "modified"}

\* serializer fields that are required: blank=False, null=False, no default
SerializerRequired(t) ==
    CASE t = "Club" -> {"phone_number"}
      [] t = "BoardGame" -> {"level"}
      [] OTHER -> {}

\* a string without the line breaks at its ends (CharField trims whitespace)
RECURSIVE Strip(_)
Strip(s) ==
    IF Len(s) > 0 /\ s[1] = "\n" THEN Strip(Tail(s))
    ELSE IF Len(s) > 0 /\ s[Len(s)] = "\n" THEN Strip(SubSeq(s, 1, Len(s) - 1))
    ELSE s

\* the request body as the serializer reads it: fields that are not its own
\* are ignored, the phone number is trimmed
Cleaned(t, data) ==
    [f \in DOMAIN data |->
        IF f \notin SerializerFields(t) \/ data[f] = {} THEN {}
        ELSE IF f = "phone_number" THEN {Strip(Given(data, f))}
        ELSE data[f]]

\* serializer.is_valid(): the fields in error, all of them; a partial update
\* does not ask for the required fields
SerializerErrors(t, kw, partial) ==
    {f \in SerializerFields(t) :
        \/ kw[f] = {} /\ f \in SerializerRequired(t) /\ ~partial
        \/ kw[f] # {} /\ ~FieldValidator(f, Given(kw, f))}

\* the request bodies: no timestamps, as in tests/test_api.py
ApiData(t) == {kw \in Kwargs(t) : kw.created = {} /\ kw.modified = {}}
NoData(t) == [f \in Fields(t) |-> {}]

\* the answer of a ModelViewSet to a request already let through by the
\* permission: the status and the tables after it
ApiOutcome(t, method, idp, kw) ==
    LET same == [response |-> "200", entity |-> entity, assoc |-> assoc, nextId |-> nextId]
        to(status) == [same EXCEPT !.response = status]
    IN IF method = "OPTIONS" THEN same
       ELSE IF idp.kind = "missing"
       THEN IF method \in {"GET", "HEAD"} THEN same
            ELSE IF method # "POST" THEN to("405")
            ELSE IF SerializerErrors(t, kw, FALSE) # {} THEN to("400")
            ELSE LET out == CreateOutcome(t, nextId[t] + 1, kw)
                 IN IF out.raised # "none" THEN to("500")
                    ELSE [same EXCEPT !.response = "201", !.entity = out.entity,
                                      !.nextId = [nextId EXCEPT ![t] = @ + 1]]
       ELSE IF method = "POST" THEN to("405")
       ELSE IF idp.kind # "uuid" \/ ~Exists(t, idp.val) THEN to("404")
       ELSE IF method \in {"GET", "HEAD"} THEN same
       ELSE IF method = "DELETE"
       THEN LET gone == Doomed(t, idp.val)
            IN [same EXCEPT !.response = "204",
                            !.entity = [u \in Tables |->
                                           Without(entity[u], {i \in DOMAIN entity[u] : <<u, i>> \in gone})],
                            !.assoc = [a \in AssocTypes |-> Cascade(a, gone)]]
       ELSE IF SerializerErrors(t, kw, method = "PATCH") # {} THEN to("400")
       ELSE LET out == SaveOutcome(t, idp.val, Assigned(t, idp.val, kw))
            IN IF out.raised # "none" THEN to("500")
               ELSE [same EXCEPT !.entity = out.entity]

\* a request to the endpoint of model t: TokenAuthentication, MyPermission
\* (401 without a user, 403 with one), then the ModelViewSet
Api(u, t, method, idp, data) ==
    /\ method \in {"POST", "PUT", "PATCH"} \/ data = NoData(t)
    /\ LET r == [Accept("api", u, idp, method) EXCEPT !.table = t, !.data = data]
           out == IF has_permission(method, u)
                  THEN ApiOutcome(t, method, idp, Cleaned(t, data))
                  ELSE [response |-> IF LoggedIn(u) THEN "403" ELSE "401",
                        entity |-> entity, assoc |-> assoc, nextId |-> nextId]
       IN /\ out.response = "201" => nextId[t] < MaxIds
          /\ entity' = out.entity
          /\ assoc' = out.assoc
          /\ nextId' = out.nextId
          /\ finished' = [n |-> finished.n + 1, req |-> Respond(r, out.response, "none")]
    /\ UNCHANGED <<now, nextRow, last, proc>>

(***************************************************************************)
(* Specifications                                                           *)
(***************************************************************************)
Init ==
    /\ now = 0
    /\ entity = [t \in Tables |-> <<>>]
    /\ nextId = [t \in Tables |-> 0]
    /\ assoc = [a \in AssocTypes |-> {}]
    /\ nextRow = [a \in AssocTypes |-> 0]
    /\ last = [op |-> "none", table |-> "none", id |-> 0, args |-> <<>>, raised |-> "none", params |-> {}]
    /\ proc = [p \in Procs |-> IdleProc]
    /\ finished = [n |-> 0, req |-> IdleProc]

\* the users, and the clubs, of the web specifications
RaceIds == {1}
SeqIds == {1, 2}

\* the statements of the request handler p after its first
Step(p) ==
    \/ JoinLookup(p)
    \/ JoinMember(p)
    \/ JoinAdd(p)
    \/ JoinInsert(p)
    \/ JoinSave(p)
    \/ ProfileValid(p)
    \/ ProfileExists(p)
    \/ ProfileCreate(p)
    \/ LeaveGet(p)
    \/ LeaveDelete(p)

\* the web application under concurrent requests: the statements of the
\* requests in flight interleave freely
Next ==
    \/ \E valid \in BOOLEAN : nextId["User"] + 1 \in RaceIds /\ Register(valid)
    \/ \E kw \in PlainKwargs("Club") : nextId["Club"] + 1 \in RaceIds /\ Create("Club", kw)
    \/ \E p \in Procs, u \in Requesters, idp \in IdParams(RaceIds), m \in Methods :
          Issued < MaxRaceRequests /\ JoinBegin(p, u, idp, m)
    \/ \E p \in Procs, u \in Requesters, idp \in IdParams(RaceIds), m \in Methods :
          Issued < MaxRaceRequests /\ ProfileBegin(p, u, idp, m)
    \/ \E p \in Procs, u \in Requesters, idp \in IdParams(RaceIds), m \in Methods :
          Issued < MaxRaceRequests /\ LeaveBegin(p, u, idp, m)
    \/ \E p \in Procs : Step(p)

Spec == Init /\ [][Next]_vars

\* no request is in flight
Quiet == \A q \in Procs : Free(q)

\* the web application serving one request at a time
SeqNext ==
    \/ \E valid \in BOOLEAN : Quiet /\ nextId["User"] + 1 \in SeqIds /\ Register(valid)
    \/ \E kw \in PlainKwargs("Club") : Quiet /\ nextId["Club"] + 1 \in SeqIds /\ Create("Club", kw)
    \/ \E p \in Procs, u \in Requesters, idp \in IdParams(SeqIds), m \in Methods :
          Quiet /\ Issued < MaxRequests /\ JoinBegin(p, u, idp, m)
    \/ \E p \in Procs, u \in Requesters, idp \in IdParams(SeqIds), m \in Methods :
          Quiet /\ Issued < MaxRequests /\ ProfileBegin(p, u, idp, m)
    \/ \E p \in Procs, u \in Requesters, idp \in IdParams(SeqIds), m \in Methods :
          Quiet /\ Issued < MaxRequests /\ LeaveBegin(p, u, idp, m)
    \/ \E p \in Procs : Step(p)

SeqSpec == Init /\ [][SeqNext]_vars

\* every login-required page served one request at a time to one registered
\* user and to the anonymous user, with one club stored at most: the ids
\* requested are of that club, of no club, or not UUIDs
PageNext ==
    \/ \E valid \in BOOLEAN : Quiet /\ nextId["User"] + 1 \in RaceIds /\ Register(valid)
    \/ \E kw \in PlainKwargs("Club") : Quiet /\ nextId["Club"] + 1 \in RaceIds /\ Create("Club", kw)
    \/ \E p \in Procs, u \in Requesters, idp \in IdParams(SeqIds), m \in Methods :
          Quiet /\ Issued < MaxRequests /\ JoinBegin(p, u, idp, m)
    \/ \E p \in Procs, u \in Requesters, idp \in IdParams(SeqIds), m \in Methods :
          Quiet /\ Issued < MaxRequests /\ ProfileBegin(p, u, idp, m)
    \/ \E p \in Procs, u \in Requesters, idp \in IdParams(SeqIds), m \in Methods :
          Quiet /\ Issued < MaxRequests /\ LeaveBegin(p, u, idp, m)
    \/ \E p \in Procs, u \in Requesters, t \in PageTables :
          Quiet /\ Issued < MaxRequests /\ ListPage(p, u, t)
    \/ \E p \in Procs, u \in Requesters, idp \in IdParams(SeqIds), t \in PageTables :
          Quiet /\ Issued < MaxRequests /\ DetailPage(p, u, idp, t)
    \/ \E p \in Procs : Step(p)

PageSpec == Init /\ [][PageNext]_vars

\* the model layer called directly: rows of every table are created and
\* deleted, join rows are created through the manager and through add
LinkNext ==
    \/ \E t \in Tables : \E kw \in PlainKwargs(t) :
          TotalEntities < MaxEntities /\ Create(t, kw)
    \/ \E t \in Tables : \E id \in DOMAIN entity[t] : Delete(t, id)
    \/ \E a \in AssocTypes : \E l \in 1..MaxIds, r \in 1..MaxIds :
          TotalLinks < MaxLinks /\ Link(a, l, r)
    \/ \E a \in AssocTypes : \E l \in 1..MaxIds, r \in 1..MaxIds :
          TotalLinks < MaxLinks /\ Add(a, l, r)
    \/ \E rid \in 1..MaxRows : Unlink("ClubClient", rid)

LinkSpec == Init /\ [][LinkNext]_vars

\* the write paths of the model layer with arbitrary field values; a run
\* follows one user and one record of one entity table through its creation
\* and its updates
WriteNext ==
    \/ Tick
    \/ \E kw \in Kwargs("User") : nextId["User"] = 0 /\ Create("User", kw)
    \/ \E t \in EntityTypes : \E kw \in Kwargs(t) :
          TotalEntities = nextId["User"] /\ Create(t, kw)
    \/ \E t \in EntityTypes : \E id \in DOMAIN entity[t] : \E kw \in Kwargs(t) : Save(t, id, kw)

WriteSpec == Init /\ [][WriteNext]_vars

\* create followed by a read: a first record is created as the tests'
\* fixtures create it and may be deleted; the next record, of any entity
\* table, is created with arbitrary keyword arguments, once unless a delete
\* comes in between
ReadNext ==
    \/ Tick
    \/ \E t \in Tables : \E kw \in PlainKwargs(t) : TotalEntities = 0 /\ Create(t, kw)
    \/ \E t \in Tables : \E id \in DOMAIN entity[t] : Delete(t, id)
    \/ \E t \in EntityTypes : \E kw \in Kwargs(t) : TotalEntities = 1 /\ last.raised = "none" /\ Create(t, kw)

ReadSpec == Init /\ [][ReadNext]_vars

\* the REST API: users (superusers or not) and one record are created as
\* the fixtures of tests/test_api.py create them, then a request of any
\* user reaches any endpoint
ApiNext ==
    \/ finished.n = 0 /\ nextId["User"] + 1 \in SeqIds
          /\ \E kw \in Kwargs("User") : Create("User", kw)
    \/ finished.n = 0 /\ TotalEntities = nextId["User"]
          /\ \E t \in ApiTables : \E kw \in PlainKwargs(t) : Create(t, kw)
    \/ finished.n = 0
          /\ \E t \in ApiTables : \E data \in ApiData(t) :
                \E u \in Requesters, method \in ApiMethods, idp \in IdParams(SeqIds) :
                   Api(u, t, method, idp, data)

ApiSpec == Init /\ [][ApiNext]_vars

\* the validators called directly, as tests/test_models.py calls them, at
\* any clock value
ValidateNext ==
    \/ Tick
    \/ \E s \in PhoneStrings : Validate("phone_number_validator", s)
    \/ \E n \in LevelSamples : Validate("check_level", n)
    \/ \E dt \in TimeInputs : Validate("check_created", dt)
    \/ \E dt \in TimeInputs : Validate("check_modified", dt)

ValidateSpec == Init /\ [][ValidateNext]_vars

(***************************************************************************)
(* Properties                                                               *)
(***************************************************************************)
\* the ClubClient rows of client c and club k among rows
MembershipIn(rows, c, k) == {x \in rows : x.left = k /\ x.right = c}

JoinPost(r) == r.op = "join" /\ r.method = "POST"

\* a step answers a request: the request answered, with its response
Answers == finished'.n = finished.n + 1
Answered == finished'.req

\* the requester is logged in and has a Client row
Known(u) == u # 0 /\ Exists("User", u) /\ ClientsOf(u) # {}

\* C1: under any interleaving of concurrent join requests (join view and
\* profile form) for the same client and club, the ClubClient table never
\* holds more than one row for that (client, club) pair.
C1_AtMostOneRowPerPair ==
    \A c \in DOMAIN entity["Client"], k \in DOMAIN entity["Club"] :
        Cardinality(Membership(c, k)) <= 1

\* C2: two join POST requests of the same client for the same existing club,
\* served one after the other, leave exactly one membership row; the second
\* reports already-member with the redirect to the profile and inserts no row.
C2_RepeatedJoin ==
    [][(/\ Answers
        /\ JoinPost(finished.req)
        /\ JoinPost(Answered)
        /\ Answered.user = finished.req.user
        /\ Answered.id = finished.req.id
        /\ finished.req.response = "redirect:profile")
       => (/\ Answered.response = "redirect:profile"
           /\ Answered.outcome = "AlreadyMember"
           /\ Answered.inserted = 0
           /\ assoc' = assoc
           /\ Cardinality(MembershipIn(assoc'["ClubClient"], Answered.client, Answered.club)) = 1)]_vars

\* C2 witness: the second request answered is a join POST answered
\* already-member, the pair's only row being the only row ever inserted
C2_Witness ==
    /\ finished.n = 2
    /\ JoinPost(finished.req)
    /\ finished.req.outcome = "AlreadyMember"
    /\ nextRow["ClubClient"] = 1
    /\ Cardinality(Membership(finished.req.client, finished.req.club)) = 1

\* C3: in each of the five join tables no two rows carry the same
\* (left, right) pair: creating a row for a pair already present fails.
C3_UniquePairs ==
    \A a \in AssocTypes : \A x, y \in assoc[a] :
        (x.left = y.left /\ x.right = y.right) => x = y

\* C4: a leave request of a client that is a Member of the club (at least
\* one ClubClient row of the pair exists) ends with no row of the pair left.
C4_LeaveEndsNotMember ==
    [][\A p \in Procs :
          (/\ proc[p].op = "leave"
           /\ proc[p].pc # "idle"
           /\ proc'[p].pc = "idle"
           /\ Membership(proc[p].client, proc[p].club) # {})
          => MembershipIn(assoc'["ClubClient"], proc[p].client, proc[p].club) = {}]_vars

\* C5: a leave request of a client for an existing club it has not joined
\* reports the not-a-member condition, ends with the redirect to the profile
\* and no unhandled error, and leaves every ClubClient row unchanged.
C5_LeaveNotJoined ==
    [][\A p \in Procs :
          (/\ proc[p].pc = "leave_get"
           /\ proc'[p].pc # "leave_get"
           /\ Exists("Club", proc[p].club)
           /\ Membership(proc[p].client, proc[p].club) = {})
          => (/\ Answers
              /\ Answered.op = "leave"
              /\ Answered.user = proc[p].user
              /\ Answered.response = "redirect:profile"
              /\ Answered.outcome = "You are not a member of this club."
              /\ Answered.deleted = 0
              /\ assoc' = assoc)]_vars

\* C5 witness: a leave request was answered not-a-member for a stored club
\* while ClubClient rows of other pairs exist
C5_Witness ==
    /\ finished.req.op = "leave"
    /\ finished.req.outcome = "You are not a member of this club."
    /\ Exists("Club", finished.req.club)
    /\ assoc["ClubClient"] # {}

\* C6: a join request (GET or POST) of a logged-in client whose club id is
\* missing, is not a UUID, or is a UUID of no stored club ends with the
\* redirect to the club list, no unhandled error and no ClubClient row created.
C6_JoinClubNotFound ==
    [][(/\ Answers
        /\ Answered.op = "join"
        /\ Known(Answered.user)
        /\ (Answered.id.kind # "uuid" \/ ~Exists("Club", Answered.id.val)))
       => (/\ Answered.response = "redirect:clubs"
           /\ Answered.outcome = "ClubNotFound"
           /\ Answered.inserted = 0
           /\ assoc' = assoc)]_vars

\* C6 witness: a join POST with an id that is not a UUID was redirected to
\* the club list
C6_Witness ==
    /\ JoinPost(finished.req)
    /\ finished.req.id.kind = "malformed"
    /\ Known(finished.req.user)
    /\ finished.req.response = "redirect:clubs"

\* C7: a join POST of a client that is NotMember of an existing club makes
\* the pair Member by inserting exactly one ClubClient row of the pair; the
\* club is then among the client's clubs.
C7_JoinCreatesOneRow ==
    [][(/\ Answers
        /\ JoinPost(Answered)
        /\ Known(Answered.user)
        /\ Answered.id.kind = "uuid"
        /\ Exists("Club", Answered.id.val)
        /\ Answered.before = 0)
       => (/\ Answered.response = "redirect:profile"
           /\ Answered.outcome = "Joined"
           /\ Answered.inserted = 1
           /\ Cardinality(MembershipIn(assoc'["ClubClient"], Answered.client, Answered.id.val)) = 1)]_vars

\* C7 witness: a join POST of a client without a row was answered joined and
\* the pair has one row
C7_Witness ==
    /\ JoinPost(finished.req)
    /\ finished.req.before = 0
    /\ finished.req.outcome = "Joined"
    /\ Cardinality(Membership(finished.req.client, finished.req.club)) = 1

\* C8: deleting a row of any entity table (a Club in particular) removes
\* every join row that references it, and every Client of a deleted User.
C8_DeleteCascades ==
    [][\A t \in Tables : \A id \in DOMAIN entity[t] :
          id \notin DOMAIN entity'[t]
          => /\ \A a \in AssocTypes : \A x \in assoc'[a] :
                   /\ (LeftType(a) = t => x.left # id)
                   /\ (RightType(a) = t => x.right # id)
             /\ t = "User" => \A c \in DOMAIN entity'["Client"] :
                                 entity'["Client"][c].user # id]_vars

\* C8 witness: a Club was deleted, and the ClubToGame, ClubAddress and
\* ClubClient rows that existed are gone although their other side is stored
C8_Witness ==
    /\ last.op = "delete"
    /\ last.table = "Club"
    /\ \E a \in {"ClubToGame", "ClubAddress", "ClubClient"} :
          /\ nextRow[a] > 0
          /\ assoc[a] = {}
          /\ Cardinality(DOMAIN entity[RightType(a)]) = nextId[RightType(a)]

\* C9: every stored Club has a phone number that is '+7' followed by exactly
\* 10 digits and every stored BoardGame has a level in 0..100, whatever write
\* path stored it.
C9_StoredFieldsValid ==
    /\ \A k \in DOMAIN entity["Club"] :
          LET s == entity["Club"][k].phone_number
          IN Len(s) = 2 + PhoneGroupA + PhoneGroupB /\ PhoneRuleBody(s, Len(s))
    /\ \A g \in DOMAIN entity["BoardGame"] :
          entity["BoardGame"][g].level >= 0 /\ entity["BoardGame"][g].level <= 100

\* C10: no stored row of any entity table or join table has a created or
\* modified timestamp later than the clock: a write with a timestamp in the
\* future is rejected and nothing is stored.
C10_NoFutureTimestamps ==
    /\ \A t \in EntityTypes : \A id \in DOMAIN entity[t] :
          entity[t][id].created <= now /\ entity[t][id].modified <= now
    /\ \A a \in AssocTypes : \A x \in assoc[a] : x.created <= now

\* C11: phone_number_validator accepts a string if and only if it is exactly
\* '+7' followed by exactly 10 digits and nothing else.
C11_PhoneExact ==
    last.op = "phone_number_validator"
    => (last.raised = "none"
        <=> (/\ Len(last.args) = 12
             /\ last.args[1] = "+"
             /\ last.args[2] = "7"
             /\ \A i \in 3..12 : last.args[i] \in Digits))

\* C12: check_level accepts an integer n if and only if 0 <= n <= 100.
C12_LevelRange ==
    last.op = "check_level"
    => (last.raised = "none" <=> (0 <= last.args /\ last.args <= 100))

\* C12 witness: both boundaries have been handed to check_level; here 100
\* was accepted
C12_Witness ==
    last.op = "check_level" /\ last.args = 100 /\ last.raised = "none"

\* C13: check_created and check_modified accept a timestamp if and only if it
\* is not later than the clock read at the call.
C13_NotLater ==
    [][(last'.op \in {"check_created", "check_modified"} /\ now' = now)
       => (last'.raised = "none" <=> last'.args <= now)]_vars

\* C13 witness: a timestamp equal to the clock, after the clock has moved,
\* was accepted by check_modified
C13_Witness ==
    last.op = "check_modified" /\ now > 0 /\ last.args = now /\ last.raised = "none"

\* C14: a create or save that fails validation is never partially applied:
\* when it raises ValidationError, every entity table and every join table is
\* exactly what it was before the call.
C14_NoPartialWrite ==
    [][(last'.op \in {"create", "save"} /\ last'.raised = "ValidationError")
       => (entity' = entity /\ assoc' = assoc)]_vars

\* C14 witness: a save of a Client that assigned an acceptable created and a
\* modified in the future was rejected, and the stored created is not the
\* assigned one
C14_Witness ==
    /\ last.op = "save"
    /\ last.table = "Client"
    /\ last.raised = "ValidationError"
    /\ last.args.created # {}
    /\ last.args.modified # {}
    /\ Given(last.args, "created") <= now
    /\ Given(last.args, "modified") > now
    /\ entity["Client"][last.id].created # Given(last.args, "created")

\* C15: the ValidationError of a rejected create or save names every field
\* passed to the write whose validator rejects its value, not only the first
\* one checked.
C15_AllViolationsListed ==
    [][(/\ now' = now
        /\ last'.op \in {"create", "save"}
        /\ last'.raised = "ValidationError")
       => \A f \in DOMAIN last'.args :
             (last'.args[f] # {} /\ ~FieldValidator(f, Given(last'.args, f)))
             => f \in last'.params]_vars

\* C20: for every entity type, a create that succeeds stores, under the
\* identifier it returns, a record whose attributes are those supplied, with
\* the defaults ('no genre', 'Sirius', the empty description, the current
\* time as created) where omitted; the identifier is that of no record
\* stored before.
C20_CreateReadRoundTrip ==
    [][(/\ now' = now
        /\ last'.op = "create"
        /\ last'.table \in EntityTypes
        /\ last'.raised = "none")
       => LET t == last'.table
              id == last'.id
              kw == last'.args
          IN /\ id \notin DOMAIN entity[t]
             /\ id \in DOMAIN entity'[t]
             /\ \A f \in DOMAIN kw : kw[f] # {} => entity'[t][id][f] = Given(kw, f)
             /\ kw.created = {} => entity'[t][id].created = now
             /\ (t = "Genre" /\ kw.name = {}) => entity'[t][id].name = "no genre"
             /\ (t = "Address" /\ kw.city = {}) => entity'[t][id].city = "Sirius"
             /\ (t = "GameSet" /\ kw.description = {}) => entity'[t][id].description = ""]_vars

\* C20 witness: an Address created without city and without created while
\* another Address is stored reads back with city 'Sirius' and created set
C20_Witness ==
    /\ last.op = "create"
    /\ last.table = "Address"
    /\ last.raised = "none"
    /\ last.args.city = {}
    /\ last.args.created = {}
    /\ last.args.modified # {}
    /\ Cardinality(DOMAIN entity["Address"]) = 2
    /\ entity["Address"][last.id].city = "Sirius"
    /\ entity["Address"][last.id].modified = Given(last.args, "modified")

\* the login-required pages: the catalog lists, the detail pages, the
\* profile, join and leave
LoginRequired == {"list", "detail", "profile", "join", "leave"}

\* C17: a request of an unauthenticated caller that reaches a login-required
\* page (a leave URL routes to its page only with a UUID) is answered with
\* the redirect to the login page and changes no table; it inserts and
\* deletes no ClubClient row.
C17_AnonymousRedirected ==
    [][(/\ Answers
        /\ Answered.op \in LoginRequired
        /\ Answered.user = 0
        /\ (Answered.op = "leave" => Answered.id.kind = "uuid"))
       => (/\ Answered.response = "redirect:login"
           /\ Answered.inserted = 0
           /\ Answered.deleted = 0
           /\ entity' = entity
           /\ assoc' = assoc)]_vars

\* C17 witness: an anonymous leave for a stored club that has a member was
\* redirected to the login page and the ClubClient row is still there
C17_Witness ==
    /\ finished.req.op = "leave"
    /\ finished.req.user = 0
    /\ finished.req.id.kind = "uuid"
    /\ Exists("Club", finished.req.id.val)
    /\ finished.req.response = "redirect:login"
    /\ \E x \in assoc["ClubClient"] : x.left = finished.req.id.val

\* C18: a leave request with an id that is not a UUID is answered 404 and
\* touches no ClubClient row; a leave request of a logged-in client with a
\* UUID of a club it has no membership row for is answered with the redirect
\* to the profile and the not-a-member report.
C18_MalformedVsNotMember ==
    [][(Answers /\ Answered.op = "leave")
       => /\ Answered.id.kind = "malformed"
             => (/\ Answered.response = "error:404"
                 /\ Answered.deleted = 0
                 /\ assoc' = assoc)
          /\ (Answered.id.kind = "uuid" /\ Known(Answered.user) /\ Answered.before = 0)
             => (/\ Answered.response = "redirect:profile"
                 /\ Answered.outcome = "You are not a member of this club."
                 /\ Answered.response # "error:404"
                 /\ assoc' = assoc)]_vars

\* C18 witness: a member's leave request with an id that is not a UUID was
\* answered 404 and the member's row is still stored
C18_Witness ==
    /\ finished.req.op = "leave"
    /\ finished.req.id.kind = "malformed"
    /\ Known(finished.req.user)
    /\ finished.req.response = "error:404"
    /\ assoc["ClubClient"] # {}

\* C19: join, leave and the club detail page answer an id that is not a UUID
\* as they answer the UUID of a club that is not stored (same response, same
\* report), and neither answer is an unhandled error.
C19_MalformedAsNotFound ==
    [][(/\ Answers
        /\ finished.n > 0
        /\ Answered.op \in {"join", "leave", "detail"}
        /\ Answered.op = "detail" => Answered.table = "Club"
        /\ finished.req.op = Answered.op
        /\ finished.req.table = Answered.table
        /\ finished.req.method = Answered.method
        /\ finished.req.user = Answered.user
        /\ Known(Answered.user)
        /\ finished.req.id.kind = "malformed"
        /\ Answered.id.kind = "uuid"
        /\ ~Exists("Club", Answered.id.val))
       => (/\ Answered.response = finished.req.response
           /\ Answered.outcome = finished.req.outcome
           /\ Answered.response # "error:500")]_vars

\* C16: at every endpoint of the REST API, GET, HEAD and OPTIONS of an
\* authenticated user that is not a superuser succeed, and their POST, PUT
\* and DELETE are refused with 403 and change no table; a superuser's POST
\* of a valid body creates the record, their PUT of a valid body to a stored
\* record updates it, and their DELETE of a stored record removes it.
C16_ApiPermissions ==
    [][(Answers /\ Answered.op = "api")
       => LET u == Answered.user
              t == Answered.table
              method == Answered.method
              idp == Answered.id
              kw == Cleaned(t, Answered.data)
              regular == LoggedIn(u) /\ ~entity["User"][u].is_superuser
              super == LoggedIn(u) /\ entity["User"][u].is_superuser
              stored == idp.kind = "uuid" /\ Exists(t, idp.val)
              valid == SerializerErrors(t, kw, FALSE) = {}
          IN /\ (regular /\ method \in {"GET", "HEAD", "OPTIONS"} /\ (idp.kind = "missing" \/ stored))
                => (Answered.response = "200" /\ entity' = entity /\ assoc' = assoc)
             /\ (regular /\ method \in {"POST", "PUT", "DELETE"})
                => (Answered.response = "403" /\ entity' = entity /\ assoc' = assoc)
             /\ (super /\ method = "POST" /\ idp.kind = "missing" /\ valid)
                => (/\ Answered.response = "201"
                    /\ DOMAIN entity'[t] = DOMAIN entity[t] \cup {nextId'[t]}
                    /\ nextId'[t] \notin DOMAIN entity[t]
                    /\ \A f \in DOMAIN kw : kw[f] # {} => entity'[t][nextId'[t]][f] = Given(kw, f))
             /\ (super /\ method = "PUT" /\ stored /\ valid)
                => (/\ Answered.response = "200"
                    /\ DOMAIN entity'[t] = DOMAIN entity[t]
                    /\ \A f \in DOMAIN kw : kw[f] # {} => entity'[t][idp.val][f] = Given(kw, f))
             /\ (super /\ method = "DELETE" /\ stored)
                => (Answered.response = "204" /\ idp.val \notin DOMAIN entity'[t])]_vars

\* C16 witness: the DELETE of a stored record by an authenticated user that
\* is not a superuser was refused with 403 and the record is still stored
C16_Witness ==
    /\ finished.req.op = "api"
    /\ finished.req.method = "DELETE"
    /\ LoggedIn(finished.req.user)
    /\ ~entity["User"][finished.req.user].is_superuser
    /\ finished.req.id.kind = "uuid"
    /\ Exists(finished.req.table, finished.req.id.val)
    /\ finished.req.response = "403"

\* C21: a Client.objects.create or a save of a stored Client that is handed a
\* created or modified timestamp later than the clock raises ValidationError
\* and leaves every table as it was, and after every step each stored Client
\* has created and modified no later than the clock
C21_ClientRejectsFuture ==
    [][/\ \A c \in DOMAIN entity'["Client"] :
             /\ entity'["Client"][c].created <= now'
             /\ entity'["Client"][c].modified <= now'
       /\ (/\ now' = now
           /\ last'.table = "Client"
           /\ last'.op \in {"create", "save"}
           /\ \E f \in {"created", "modified"} :
                 last'.args[f] # {} /\ Given(last'.args, f) > now)
          => (last'.raised = "ValidationError" /\ entity' = entity /\ nextId' = nextId)]_vars

\* C21 witness: the save of a stored Client with a modified timestamp later
\* than the clock, and a created one that is not, was refused and the stored
\* row still has both timestamps no later than the clock
C21_Witness ==
    /\ last.op = "save"
    /\ last.table = "Client"
    /\ last.id \in DOMAIN entity["Client"]
    /\ last.args["modified"] # {}
    /\ Given(last.args, "modified") > now
    /\ last.args["created"] # {}
    /\ Given(last.args, "created") <= now
    /\ last.raised = "ValidationError"
    /\ entity["Client"][last.id].modified <= now
    /\ entity["Client"][last.id].created <= now

\* C22: every user account has exactly one Client; a step that stores a user
\* account (a registration with a valid form) stores exactly that account
\* and exactly one Client, the one of that account; and a registration with
\* an invalid form stores no user account and no Client
C22_OneClientPerUser ==
    [][/\ \A u \in DOMAIN entity'["User"] : Cardinality(ClientsOf(u))' = 1
       /\ (DOMAIN entity'["User"] # DOMAIN entity["User"])
          => (/\ last'.op = "register"
              /\ last'.raised = "none"
              /\ \E u \in DOMAIN entity'["User"] \ DOMAIN entity["User"] :
                    /\ DOMAIN entity'["User"] = DOMAIN entity["User"] \cup {u}
                    /\ \E c \in DOMAIN entity'["Client"] \ DOMAIN entity["Client"] :
                          /\ DOMAIN entity'["Client"] = DOMAIN entity["Client"] \cup {c}
                          /\ entity'["Client"][c].user = u)
       /\ (last'.op = "register" /\ last'.raised = "ValidationError")
          => (/\ DOMAIN entity'["User"] = DOMAIN entity["User"]
              /\ DOMAIN entity'["Client"] = DOMAIN entity["Client"])]_vars

\* C22 witness: the second registration with a valid form has just been
\* served: two user accounts are stored, each with exactly one Client, and
\* the two Clients are different
C22_Witness ==
    /\ last.op = "register"
    /\ last.raised = "none"
    /\ Cardinality(DOMAIN entity["User"]) = 2
    /\ Cardinality(DOMAIN entity["Client"]) = 2
    /\ \A u \in DOMAIN entity["User"] : Cardinality(ClientsOf(u)) = 1

\* C23: a REST API request of any method (GET, HEAD, OPTIONS, PATCH, POST,
\* PUT, DELETE) made by an authenticated user that is not a superuser leaves
\* every stored record and every association row as it was
C23_RegularUserChangesNothing ==
    [][(/\ Answers
        /\ Answered.op = "api"
        /\ LoggedIn(Answered.user)
        /\ ~entity["User"][Answered.user].is_superuser)
       => (entity' = entity /\ assoc' = assoc /\ nextId' = nextId)]_vars

\* C24: in every state reached by entity creates, links, joins, leaves and
\* entity deletes, the deletion of a Client or of its user account included,
\* the left and the right entity of every association row are both stored
C24_NoDanglingRows ==
    \A a \in AssocTypes : \A x \in assoc[a] :
       Exists(LeftType(a), x.left) /\ Exists(RightType(a), x.right)

\* C24 witness: a user account was deleted: no Client is left although one
\* was stored, no ClubClient row is left although one was inserted, and the
\* Club is still stored
C24_Witness ==
    /\ last.op = "delete"
    /\ last.table = "User"
    /\ nextId["Client"] > 0
    /\ DOMAIN entity["Client"] = {}
    /\ nextRow["ClubClient"] > 0
    /\ assoc["ClubClient"] = {}
    /\ DOMAIN entity["Club"] # {}

\* the requests a step works on: the one it answers and those of the
\* handlers it moves
Served ==
    (IF Answers THEN {Answered} ELSE {})
        \cup {proc'[p] : p \in {q \in Procs : proc'[q] # proc[q] /\ proc'[q].pc # "idle"}}

C26_JoinGetReadOnly ==
    [][/\ \A r \in Served :
             (r.op = "join" /\ r.method = "GET")
             => (assoc' = assoc /\ nextRow' = nextRow /\ r.inserted = 0)
       /\ \A r \in Served :
             (r.op = "join" /\ assoc'["ClubClient"] # assoc["ClubClient"]) => r.method = "POST"
       /\ (/\ Answers
           /\ Answered.op = "join"
           /\ Answered.method = "GET"
           /\ Known(Answered.user)
           /\ Answered.id.kind = "uuid"
           /\ Exists("Club", Answered.id.val))
          => (/\ Answered.before = 0
                    => (Answered.response = "render:join" /\ Answered.outcome = "Confirm")
              /\ Answered.before > 0
                    => (Answered.response = "redirect:profile"
                        /\ Answered.outcome = "AlreadyMember")
              /\ Cardinality(MembershipIn(assoc'["ClubClient"], Answered.client, Answered.id.val))
                    = Answered.before)]_vars

\* C26 witness: a join GET of a client that is not a member of the stored
\* club was answered with the confirmation page, and the pair still has no
\* row although the client has joined another club before
C26_Witness ==
    /\ finished.req.op = "join"
    /\ finished.req.method = "GET"
    /\ finished.req.outcome = "Confirm"
    /\ finished.req.response = "render:join"
    /\ Exists("Club", finished.req.club)
    /\ Membership(finished.req.client, finished.req.club) = {}
    /\ \E x \in assoc["ClubClient"] : x.right = finished.req.client

\* C27: in every state reached by requests served one after the other, a
\* profile-form POST naming a stored club and a join-view POST for that club
\* have the same effect on the ClubClient table: for a client that is not a
\* member exactly one row of the pair is inserted, for a member none is and
\* the table is unchanged, and the pair ends with one row; the profile form
\* then reports 'You already joined this club!'
C27_JoinPathsAgree ==
    [][(/\ Answers
        /\ Answered.op \in {"profile", "join"}
        /\ Answered.method = "POST"
        /\ Known(Answered.user)
        /\ Answered.id.kind = "uuid"
        /\ Exists("Club", Answered.id.val))
       => LET rows == MembershipIn(assoc'["ClubClient"], Answered.client, Answered.id.val)
          IN /\ Answered.before = 0 => (Answered.inserted = 1 /\ Cardinality(rows) = 1)
             /\ Answered.before > 0
                   => (/\ Answered.inserted = 0
                       /\ assoc' = assoc
                       /\ Cardinality(rows) = Answered.before)
             /\ {x \in assoc'["ClubClient"] : x \notin rows}
                   = {x \in assoc["ClubClient"] : x \notin rows}
             /\ Answered.op = "profile"
                   => (/\ Answered.response = "render:profile"
                       /\ Answered.outcome = IF Answered.before > 0
                                             THEN "You already joined this club!"
                                             ELSE "")]_vars

\* C27 witness: after an earlier request inserted the row of the pair, a
\* profile-form POST of the same client naming the same club was answered
\* 'You already joined this club!' and the pair still has that one row
C27_Witness ==
    /\ finished.n = 2
    /\ finished.req.op = "profile"
    /\ finished.req.method = "POST"
    /\ finished.req.before = 1
    /\ finished.req.outcome = "You already joined this club!"
    /\ nextRow["ClubClient"] = 1
    /\ Cardinality(Membership(finished.req.client, finished.req.club)) = 1

====
